---- MODULE Spec2Model ----
(***************************************************************************)
(* Model of libnetwork/osl/interface_linux.go: the interface registry of   *)
(* one network namespace (networkNamespace) with its operations            *)
(* AddInterface, nwIface.Remove, nwIface.Statistics and findDst, the       *)
(* configuration pipeline configureInterface and the route conflict check  *)
(* checkRouteConflict.                                                     *)
(* The kernel (netlink handle) is the environment: every kernel call is    *)
(* one atomic step that either succeeds, changing the kernel state, or     *)
(* fails, leaving it unchanged.                                            *)
(* Spec is the registry under concurrent AddInterface and Remove calls;    *)
(* SpecRC, SpecMaster and SpecStats are checkRouteConflict, the master     *)
(* lookup and Statistics on the inputs and registries they can meet.       *)
(***************************************************************************)
EXTENDS Integers, Sequences, FiniteSets, TLC

\* ------------------------------------------------------------------ bounds
\* Number of concurrent callers.
NumThreads == 2
\* Number of AddInterface calls (each one builds one nwIface).
MaxAdds == 2
\* Number of Remove calls.
MaxRemoves == 2
\* Width in bits of an IP address of the model.
AddrBits == 3
\* Largest number of routes drawn for the routing table of the conflict check.
MaxRoutes == 2
\* Largest value of a counter of a device's statistics.
MaxCount == 1
\* Largest number of entities a registry holds when a master is looked up.
MaxRegistered == 2

Threads == 1..NumThreads

\* ------------------------------------------------------------- input sets
\* Source names: one device that exists in the caller's namespace, one bridge.
SrcNames == {"veth", "br"}
\* Destination prefixes.
Prefixes == {"eth", "eth1"}
\* The namespaces a device can be in ("gone": deleted from the kernel).
HostNs == "host"
SandboxNs == "sbox"

\* An IP network *net.IPNet is <<ip, prefix length>>; the nil pointer is <<>>.
NilNet == <<>>
TwoPow[n \in 0..AddrBits] == IF n = 0 THEN 1 ELSE 2 * TwoPow[n - 1]
Addrs == 0..(TwoPow[AddrBits] - 1)
Nets == Addrs \X (0..AddrBits)
FAMILY_V4 == "v4"
FAMILY_V6 == "v6"
Families == {FAMILY_V4, FAMILY_V6}

\* ------------------------------------------------------------------ state
VARIABLES
    isDefault,     \* networkNamespace.isDefault
    nextIfIndex,   \* networkNamespace.nextIfIndex: prefix -> next suffix
    iFaces,        \* networkNamespace.iFaces: the registered nwIface values
    mu,            \* the registry mutex: 0 when free, else the holding thread
    created,       \* number of nwIface values built so far (AddInterface calls)
    removes,       \* number of Remove calls so far
    links,         \* kernel: the devices, by interface index
    rtable,        \* kernel: the routing table of the registry's namespace
    th,            \* per thread: position and locals of the call in progress
    issued,        \* history: [prefix, suffix, name] in the order of allocation
    returned,      \* history: the entities the registry has handed to callers
    rc,            \* inputs and result of one checkRouteConflict call
    stat           \* entity, kernel report and result of one Statistics call

vars == <<isDefault, nextIfIndex, iFaces, mu, created, removes, links, rtable, th,
          issued, returned, rc, stat>>

\* --------------------------------------------------------- pure functions
\* strconv of a non-negative integer as fmt.Sprintf("%d") does it.
Digit(d) ==
    CASE d = 0 -> "0" [] d = 1 -> "1" [] d = 2 -> "2" [] d = 3 -> "3"
      [] d = 4 -> "4" [] d = 5 -> "5" [] d = 6 -> "6" [] d = 7 -> "7"
      [] d = 8 -> "8" [] OTHER -> "9"

RECURSIVE Itoa(_)
Itoa(n) == IF n < 10 THEN Digit(n) ELSE Itoa(n \div 10) \o Digit(n % 10)

\* fmt.Sprintf("%s%d", dstPrefix, n.nextIfIndex[dstPrefix])
Sprintf(dstPrefix, n) == dstPrefix \o Itoa(n)

\* (*net.IPNet).Contains: the address and the network number agree under the mask.
Contains(net, ip) ==
    (net[1] \div TwoPow[AddrBits - net[2]]) = (ip \div TwoPow[AddrBits - net[2]])

\* The networks of the candidate's address range.
NetAddrs(net) == {a \in Addrs : Contains(net, a)}

\* ------------------------------------------------------ errors and results
\* An error is [msg, cause]: the message of the step that returned it and the
\* error it wraps. NoErr is Go's nil error.
NoErr == [msg |-> "", cause |-> ""]
Err(msg, cause) == [msg |-> msg, cause |-> cause]
\* The error of a failed kernel call.
KernelErr == "kernel"
ConflictErr == "cannot program address: conflicts with existing route"

\* --------------------------------------------------------- AddInterface inputs
NoOptions ==
    [bridge |-> FALSE, master |-> "", mac |-> "", address |-> NilNet,
     addressIPv6 |-> NilNet, llAddrs |-> <<>>, routes |-> <<>>]

\* The option sets (IfaceOption lists) the callers pass.
BridgeOptions == [NoOptions EXCEPT !.bridge = TRUE]
FullOptions ==
    [NoOptions EXCEPT !.master = "br", !.mac = "02:42", !.address = <<5, 2>>,
                      !.addressIPv6 = <<3, 2>>,
                      !.llAddrs = << <<1, 3>>, <<2, 3>> >>,
                      !.routes = << <<4, 3>>, <<7, 3>> >>]

\* The AddInterface calls of the model: <<srcName, dstPrefix, options>>.
Requests ==
    { <<"br", "eth", BridgeOptions>>,
      <<"veth", "eth", FullOptions>>,
      <<"veth", "eth1", NoOptions>> }

\* --------------------------------------------------------- kernel (netlink)
\* The namespace the registry's handle n.nlHandle works in.
NlhNs == IF isDefault THEN HostNs ELSE SandboxNs

\* The statistics object of a device (netlink.LinkStatistics): the counters
\* Statistics reads and one it does not read. NilStats is the nil pointer.
LinkStatistics ==
    [RxBytes : 0..MaxCount, TxBytes : 0..MaxCount, RxPackets : 0..MaxCount,
     TxPackets : 0..MaxCount, RxDropped : 0..MaxCount, TxDropped : 0..MaxCount,
     RxErrors : 0..MaxCount]
NilStats == <<>>
NoTraffic ==
    [RxBytes |-> 0, TxBytes |-> 0, RxPackets |-> 0, TxPackets |-> 0,
     RxDropped |-> 0, TxDropped |-> 0, RxErrors |-> 0]

NewLink(ns, name) ==
    [ns |-> ns, name |-> name, up |-> FALSE, mac |-> "", addrs |-> {},
     v6 |-> FALSE, master |-> "", stats |-> NoTraffic]

LinkIdx == 1..Len(links)

\* The device a handle of namespace ns finds under a name (at most one).
LinkByName(ns, name) ==
    {d \in LinkIdx : links[d].ns = ns /\ links[d].name = name}

\* A handle of namespace ns can act on the device with index d.
Reachable(ns, d) == d \in LinkIdx /\ links[d].ns = ns

\* The kernel accepts name for device d in namespace ns: no other device has it.
NameFree(ns, name, d) == \A o \in LinkByName(ns, name) : o = d

\* ------------------------------------------------------------ thread state
\* type nwIface, lines 22-34; id stands for the identity of the value (its
\* address), 0 for no value.
NoIface ==
    [id |-> 0, srcName |-> "", dstName |-> "", master |-> "", dstMaster |-> "",
     mac |-> "", address |-> NilNet, addressIPv6 |-> NilNet, llAddrs |-> <<>>,
     routes |-> <<>>, bridge |-> FALSE]

Idle ==
    [pc |-> "idle", op |-> "", i |-> NoIface, dstPrefix |-> "", iface |-> 0,
     cfg |-> 0, cnt |-> 0, k |-> 0, err |-> NoErr, ret |-> NoErr,
     calls |-> <<>>]

Call(op, arg, ok) == [op |-> op, arg |-> arg, ok |-> ok]

\* Routing tables the namespace starts with.
InitTables ==
    { [f \in Families |-> {}],
      [f \in Families |-> IF f = FAMILY_V4 THEN {<<4, 1>>} ELSE {}],
      [f \in Families |-> IF f = FAMILY_V6 THEN {<<2, 3>>, NilNet} ELSE {}] }

Init ==
    /\ isDefault \in BOOLEAN
    /\ nextIfIndex = [p \in Prefixes |-> 0]
    /\ iFaces = <<>>
    /\ mu = 0
    /\ created = 0
    /\ removes = 0
    /\ links = << NewLink(HostNs, "veth") >>
    /\ rtable \in InitTables
    /\ th = [t \in Threads |-> Idle]
    /\ issued = <<>>
    /\ returned = {}
    /\ rc = [pc |-> "off"]
    /\ stat = [pc |-> "off"]

\* The call of thread t moves to pc, having made one kernel call.
Step(t, pc, call) == [th[t] EXCEPT !.pc = pc, !.calls = Append(@, call)]
\* The call of thread t returns e, having made one kernel call.
StepReturn(t, e, call) ==
    [th[t] EXCEPT !.pc = "done", !.ret = e, !.calls = Append(@, call),
                  !.cfg = 0, !.cnt = 0, !.k = 0]

At(t, pc) == th[t].pc = pc
\* The nwIface the call of thread t works on.
I(t) == th[t].i

\* The callers are interchangeable: the one that makes the first call is 1, the
\* next one to make a call is 2, and so on.
FirstCaller(t) == \A o \in Threads : o < t => th[o].pc # "idle"

\* ------------------------------------------------------------- AddInterface
\* Lines 182-196: build the nwIface from the options; a master is resolved first.
AddInterface(t, srcName, dstPrefix, options) ==
    /\ th[t].pc \in {"idle", "done"}
    /\ FirstCaller(t)
    /\ created < MaxAdds
    /\ created' = created + 1
    /\ th' = [th EXCEPT ![t] =
          [Idle EXCEPT !.op = "AddInterface",
                       !.i = [id |-> created + 1,
                              srcName |-> srcName, dstName |-> dstPrefix,
                              master |-> options.master, dstMaster |-> "",
                              mac |-> options.mac, address |-> options.address,
                              addressIPv6 |-> options.addressIPv6,
                              llAddrs |-> options.llAddrs,
                              routes |-> options.routes,
                              bridge |-> options.bridge],
                       !.dstPrefix = dstPrefix,
                       !.pc = IF options.master # "" THEN "findDst" ELSE "Lock"]]
    /\ UNCHANGED <<isDefault, nextIfIndex, iFaces, mu, removes, links, rtable,
                   issued, returned, rc, stat>>

\* Variant of findDst: the kind of the entity is not looked at.
findDstAnyKind(srcName, isBridge) ==
    LET hits == {x \in 1..Len(iFaces) : iFaces[x].srcName = srcName}
        first == CHOOSE x \in hits : \A y \in hits : x <= y
    IN  IF hits = {} THEN "" ELSE iFaces[first].dstName

\* findDst, lines 171-179: the destination name of the first registered entity
\* with that source name (a bridge, if isBridge); "" if there is none.
findDst(srcName, isBridge) ==
    LET hits == {x \in 1..Len(iFaces) :
                    /\ iFaces[x].srcName = srcName
                    /\ (~isBridge \/ iFaces[x].bridge)}
        first == CHOOSE x \in hits : \A y \in hits : x <= y
    IN  IF hits = {} THEN "" ELSE iFaces[first].dstName

\* findDst, line 168: n.Lock().
FindDstLock(t) ==
    /\ At(t, "findDst")
    /\ mu = 0
    /\ mu' = t
    /\ th' = [th EXCEPT ![t].pc = "findDstLocked"]
    /\ UNCHANGED <<isDefault, nextIfIndex, iFaces, created, removes, links, rtable, issued,
                   returned, rc, stat>>

\* findDst, lines 169-179 and AddInterface lines 191-195: scan, unlock, and
\* return the master-not-found error when nothing was found.
FindDstScan(t) ==
    /\ At(t, "findDstLocked")
    /\ mu' = 0
    /\ LET dst == findDst(I(t).master, TRUE) IN
         th' = [th EXCEPT ![t] =
               IF dst = ""
                 THEN [@ EXCEPT !.pc = "done",
                          !.ret = Err("could not find an appropriate master", "")]
                 ELSE [@ EXCEPT !.pc = "Lock", !.i.dstMaster = dst]]
    /\ UNCHANGED <<isDefault, nextIfIndex, iFaces, created, removes, links,
                   rtable, issued, returned, rc, stat>>

\* AddInterface, line 198: n.Lock().
AddLock(t) ==
    /\ At(t, "Lock")
    /\ mu = 0
    /\ mu' = t
    /\ th' = [th EXCEPT ![t].pc = "allocate"]
    /\ UNCHANGED <<isDefault, nextIfIndex, iFaces, created, removes, links, rtable, issued,
                   returned, rc, stat>>

\* Variant of DstNameFor: the default namespace is renamed like any other.
DstNameSuffixed(srcName, dstPrefix) == Sprintf(dstPrefix, nextIfIndex[dstPrefix])

\* AddInterface, lines 199-204: the destination name.
DstNameFor(srcName, dstPrefix) ==
    IF isDefault THEN srcName ELSE Sprintf(dstPrefix, nextIfIndex[dstPrefix])

\* Variant of Incremented: one counter shared by all prefixes.
IncrementedAll(index, dstPrefix) == [p \in DOMAIN index |-> index[p] + 1]

\* Variant of Incremented: the increment is forgotten.
NotIncremented(index, dstPrefix) == index

\* AddInterface, line 203: n.nextIfIndex[dstPrefix]++.
Incremented(index, dstPrefix) == [index EXCEPT ![dstPrefix] = @ + 1]

\* AddInterface, lines 199-210: allocate the destination name, snapshot, unlock.
Allocate(t) ==
    /\ At(t, "allocate")
    /\ nextIfIndex' =
          IF isDefault THEN nextIfIndex
          ELSE Incremented(nextIfIndex, th[t].dstPrefix)
    /\ issued' =
          IF isDefault THEN issued
          ELSE Append(issued,
                  [prefix |-> th[t].dstPrefix,
                   suffix |-> nextIfIndex[th[t].dstPrefix],
                   name |-> DstNameFor(I(t).srcName, th[t].dstPrefix)])
    /\ mu' = 0
    /\ th' = [th EXCEPT
                 ![t].i.dstName = DstNameFor(I(t).srcName, th[t].dstPrefix),
                 ![t].pc = IF I(t).bridge THEN "LinkAdd" ELSE "hostLinkByName"]
    /\ UNCHANGED <<isDefault, iFaces, created, removes, links, rtable, returned,
                   rc, stat>>

\* Lines 214-221: create the bridge inside the namespace under the source name.
LinkAdd(t) ==
    /\ At(t, "LinkAdd")
    /\ \E ok \in BOOLEAN :
         /\ ok => LinkByName(NlhNs, I(t).srcName) = {}
         /\ IF ok
              THEN /\ links' = Append(links, NewLink(NlhNs, I(t).srcName))
                   /\ th' = [th EXCEPT ![t] =
                         Step(t, "LinkByName", Call("LinkAdd", I(t).srcName, TRUE))]
              ELSE /\ links' = links
                   /\ th' = [th EXCEPT ![t] =
                         StepReturn(t, Err("failed to create bridge", KernelErr),
                                    Call("LinkAdd", I(t).srcName, FALSE))]
    /\ UNCHANGED <<isDefault, nextIfIndex, iFaces, mu, created, removes, rtable, issued,
                   returned, rc, stat>>

\* Lines 224-227: find the device by its source name in the caller's namespace.
HostLinkByName(t) ==
    /\ At(t, "hostLinkByName")
    /\ \/ \E d \in LinkByName(HostNs, I(t).srcName) :
            th' = [th EXCEPT ![t] =
               [Step(t, IF isDefault THEN "LinkByName" ELSE "GetFromPath",
                     Call("host.LinkByName", I(t).srcName, TRUE))
                  EXCEPT !.iface = d]]
       \/ th' = [th EXCEPT ![t] =
               StepReturn(t, Err("failed to get link by name", KernelErr),
                          Call("host.LinkByName", I(t).srcName, FALSE))]
    /\ UNCHANGED <<isDefault, nextIfIndex, iFaces, mu, created, removes, links, rtable,
                   issued, returned, rc, stat>>

\* Lines 232-236: open the namespace the registry stands for.
GetFromPath(t) ==
    /\ At(t, "GetFromPath")
    /\ \E ok \in BOOLEAN :
         th' = [th EXCEPT ![t] =
            IF ok THEN Step(t, "LinkSetNsFd", Call("GetFromPath", SandboxNs, TRUE))
            ELSE StepReturn(t, Err("failed get network namespace", KernelErr),
                            Call("GetFromPath", SandboxNs, FALSE))]
    /\ UNCHANGED <<isDefault, nextIfIndex, iFaces, mu, created, removes, links, rtable,
                   issued, returned, rc, stat>>

\* A device that changes namespace arrives down, without addresses and master.
Moved(l, to) ==
    [l EXCEPT !.ns = to, !.up = FALSE, !.addrs = {}, !.v6 = FALSE, !.master = ""]

\* The kernel moves device d, reached through a handle of namespace from, to
\* namespace to: the device must be there and its name free in the target.
CanMove(from, d, to) ==
    /\ Reachable(from, d)
    /\ NameFree(to, links[d].name, d)

\* Lines 238-240: move the device into the registry's namespace.
LinkSetNsFd(t) ==
    /\ At(t, "LinkSetNsFd")
    /\ \E ok \in BOOLEAN :
         /\ ok => CanMove(HostNs, th[t].iface, SandboxNs)
         /\ IF ok
              THEN /\ links' = [links EXCEPT ![th[t].iface] = Moved(@, SandboxNs)]
                   /\ th' = [th EXCEPT ![t] =
                         Step(t, "LinkByName", Call("host.LinkSetNsFd", SandboxNs, TRUE))]
              ELSE /\ links' = links
                   /\ th' = [th EXCEPT ![t] =
                         StepReturn(t, Err("failed to set namespace on link", KernelErr),
                                    Call("host.LinkSetNsFd", SandboxNs, FALSE))]
    /\ UNCHANGED <<isDefault, nextIfIndex, iFaces, mu, created, removes, rtable, issued,
                   returned, rc, stat>>

\* Lines 245-248: find the device, now in the registry's namespace, by source name.
LinkByNameSrc(t) ==
    /\ At(t, "LinkByName")
    /\ \/ \E d \in LinkByName(NlhNs, I(t).srcName) :
            th' = [th EXCEPT ![t] =
               [Step(t, "LinkSetDown", Call("LinkByName", I(t).srcName, TRUE))
                  EXCEPT !.iface = d]]
       \/ th' = [th EXCEPT ![t] =
               StepReturn(t, Err("failed to get link by name", KernelErr),
                          Call("LinkByName", I(t).srcName, FALSE))]
    /\ UNCHANGED <<isDefault, nextIfIndex, iFaces, mu, created, removes, links, rtable,
                   issued, returned, rc, stat>>

\* Variant of ifaceConfigurators: the MAC address is set before the rename.
ifaceConfiguratorsMACFirst ==
    << "setInterfaceMAC", "setInterfaceName", "setInterfaceIP",
       "setInterfaceIPv6", "setInterfaceMaster", "setInterfaceLinkLocalIPs" >>

\* The configurators of configureInterface, lines 297-307, in their order.
ifaceConfigurators ==
    << "setInterfaceName", "setInterfaceMAC", "setInterfaceIP",
       "setInterfaceIPv6", "setInterfaceMaster", "setInterfaceLinkLocalIPs" >>

\* The ErrMessage of each configurator, lines 301-306.
ErrMessage ==
    << "error renaming interface", "error setting interface MAC",
       "error setting interface IP", "error setting interface IPv6",
       "error setting interface master",
       "error setting interface link local IPs" >>

\* Lines 251-253 and 256: set the device down, then enter configureInterface.
LinkSetDown(t) ==
    /\ At(t, "LinkSetDown")
    /\ \E ok \in BOOLEAN :
         /\ ok => Reachable(NlhNs, th[t].iface)
         /\ IF ok
              THEN /\ links' = [links EXCEPT ![th[t].iface].up = FALSE]
                   /\ th' = [th EXCEPT ![t] =
                         [Step(t, ifaceConfigurators[1], Call("LinkSetDown", "", TRUE))
                            EXCEPT !.cfg = 1]]
              ELSE /\ links' = links
                   /\ th' = [th EXCEPT ![t] =
                         StepReturn(t, Err("failed to set link down", KernelErr),
                                    Call("LinkSetDown", "", FALSE))]
    /\ UNCHANGED <<isDefault, nextIfIndex, iFaces, mu, created, removes, rtable, issued,
                   returned, rc, stat>>

\* ------------------------------------------------------- configureInterface
Logged(t, call) == [th[t] EXCEPT !.calls = Append(@, call)]

\* Variant of ConfigOk: the routes are installed right after the pipeline,
\* without bringing the link up.
ConfigOkThenRoutes(r) ==
    IF r.cfg < Len(ifaceConfigurators)
      THEN [r EXCEPT !.pc = ifaceConfigurators[r.cfg + 1], !.cfg = r.cfg + 1,
                     !.k = 0]
      ELSE [r EXCEPT !.pc = "setInterfaceRoutes", !.cfg = 0, !.k = 0, !.cnt = 0]

\* configureInterface, lines 309-314: after a configurator returned nil the next
\* one runs; after the last, AddInterface goes on to bring the link up (line 271).
ConfigOk(r) ==
    IF r.cfg < Len(ifaceConfigurators)
      THEN [r EXCEPT !.pc = ifaceConfigurators[r.cfg + 1], !.cfg = r.cfg + 1,
                     !.k = 0]
      ELSE [r EXCEPT !.pc = "LinkSetUp", !.cfg = 0, !.k = 0, !.cnt = 0]

\* Variant of ConfigFail: the error is noted but the pipeline goes on.
ConfigFailIgnored(r, cause) ==
    [ConfigOk(r) EXCEPT !.err = Err(ErrMessage[r.cfg], cause)]

\* Variant of ConfigFail: the rollback moves the device without renaming it.
ConfigFailNoRename(r, cause) ==
    [r EXCEPT !.pc = "rollbackNs", !.err = Err(ErrMessage[r.cfg], cause)]

\* configureInterface, lines 310-312, and AddInterface line 256: a configurator's
\* error is wrapped with its message, and AddInterface starts the rollback.
ConfigFail(r, cause) ==
    [r EXCEPT !.pc = "rollbackName", !.err = Err(ErrMessage[r.cfg], cause)]

\* setInterfaceName, lines 369-371.
setInterfaceName(t) ==
    /\ At(t, "setInterfaceName")
    /\ \E ok \in BOOLEAN :
         /\ ok => /\ Reachable(NlhNs, th[t].iface)
                  /\ NameFree(NlhNs, I(t).dstName, th[t].iface)
         /\ IF ok
              THEN /\ links' = [links EXCEPT ![th[t].iface].name = I(t).dstName]
                   /\ th' = [th EXCEPT ![t] =
                         ConfigOk(Logged(t, Call("LinkSetName", I(t).dstName, TRUE)))]
              ELSE /\ links' = links
                   /\ th' = [th EXCEPT ![t] =
                         ConfigFail(Logged(t, Call("LinkSetName", I(t).dstName, FALSE)),
                                    KernelErr)]
    /\ UNCHANGED <<isDefault, nextIfIndex, iFaces, mu, created, removes, rtable, issued,
                   returned, rc, stat>>

\* setInterfaceMAC, lines 327-332.
setInterfaceMAC(t) ==
    /\ At(t, "setInterfaceMAC")
    /\ IF I(t).mac = ""
         THEN /\ th' = [th EXCEPT ![t] = ConfigOk(th[t])]
              /\ links' = links
         ELSE \E ok \in BOOLEAN :
                /\ ok => Reachable(NlhNs, th[t].iface)
                /\ IF ok
                     THEN /\ links' = [links EXCEPT ![th[t].iface].mac = I(t).mac]
                          /\ th' = [th EXCEPT ![t] =
                                ConfigOk(Logged(t, Call("LinkSetHardwareAddr", I(t).mac, TRUE)))]
                     ELSE /\ links' = links
                          /\ th' = [th EXCEPT ![t] =
                                ConfigFail(Logged(t, Call("LinkSetHardwareAddr", I(t).mac, FALSE)),
                                           KernelErr)]
    /\ UNCHANGED <<isDefault, nextIfIndex, iFaces, mu, created, removes, rtable, issued,
                   returned, rc, stat>>

\* Variant of RouteConflict: only the first containment test is made.
RouteConflictOneWay(routes, address) ==
    \E route \in routes : route # NilNet /\ Contains(route, address[1])

\* checkRouteConflict, lines 392-399: some listed route with a destination
\* contains the address's IP, or has its IP inside the address's network.
RouteConflict(routes, address) ==
    \E route \in routes :
       /\ route # NilNet
       /\ (Contains(route, address[1]) \/ Contains(address, route[1]))

\* checkRouteConflict, lines 387-401: "" stands for the nil error.
checkRouteConflict(listOk, routes, address) ==
    IF ~listOk THEN KernelErr
    ELSE IF RouteConflict(routes, address) THEN ConflictErr
    ELSE ""

\* The kernel adds an address to device d: the device is there and does not
\* have the address yet.
CanAddrAdd(d, a) == Reachable(NlhNs, d) /\ a \notin links[d].addrs

\* One nlh.AddrAdd(iface, addr) of a configurator whose next position is pc
\* when the call succeeds.
AddrAdd(t, fam, net, rOk) ==
    \E ok \in BOOLEAN :
      /\ ok => CanAddrAdd(th[t].iface, <<fam, net>>)
      /\ IF ok
           THEN /\ links' = [links EXCEPT ![th[t].iface].addrs = @ \cup {<<fam, net>>}]
                /\ th' = [th EXCEPT ![t] =
                      [rOk EXCEPT !.calls = Append(th[t].calls, Call("AddrAdd", fam, TRUE))]]
           ELSE /\ links' = links
                /\ th' = [th EXCEPT ![t] =
                      ConfigFail(Logged(t, Call("AddrAdd", fam, FALSE)), KernelErr)]

\* setInterfaceIP, lines 335-340: nothing to do without an address; else the
\* route conflict check against the IPv4 routes.
setInterfaceIP(t) ==
    /\ At(t, "setInterfaceIP")
    /\ IF I(t).address = NilNet
         THEN th' = [th EXCEPT ![t] = ConfigOk(th[t])]
         ELSE \E listOk \in BOOLEAN :
                LET e == checkRouteConflict(listOk, rtable[FAMILY_V4], I(t).address)
                    r == Logged(t, Call("RouteList", FAMILY_V4, listOk))
                IN  th' = [th EXCEPT ![t] =
                       IF e # "" THEN ConfigFail(r, e)
                       ELSE [r EXCEPT !.pc = "setInterfaceIP.AddrAdd"]]
    /\ UNCHANGED <<isDefault, nextIfIndex, iFaces, mu, created, removes, links, rtable,
                   issued, returned, rc, stat>>

\* setInterfaceIP, lines 341-342.
setInterfaceIPAddrAdd(t) ==
    /\ At(t, "setInterfaceIP.AddrAdd")
    /\ AddrAdd(t, FAMILY_V4, I(t).address, ConfigOk(th[t]))
    /\ UNCHANGED <<isDefault, nextIfIndex, iFaces, mu, created, removes, rtable, issued,
                   returned, rc, stat>>

\* setInterfaceIPv6, lines 346-351.
setInterfaceIPv6(t) ==
    /\ At(t, "setInterfaceIPv6")
    /\ IF I(t).addressIPv6 = NilNet
         THEN th' = [th EXCEPT ![t] = ConfigOk(th[t])]
         ELSE \E listOk \in BOOLEAN :
                LET e == checkRouteConflict(listOk, rtable[FAMILY_V6], I(t).addressIPv6)
                    r == Logged(t, Call("RouteList", FAMILY_V6, listOk))
                IN  th' = [th EXCEPT ![t] =
                       IF e # "" THEN ConfigFail(r, e)
                       ELSE [r EXCEPT !.pc = "setInterfaceIPv6.setIPv6"]]
    /\ UNCHANGED <<isDefault, nextIfIndex, iFaces, mu, created, removes, links, rtable,
                   issued, returned, rc, stat>>

\* setInterfaceIPv6, lines 352-354: enable IPv6 for the device of that name
\* in the namespace, if there is one.
setIPv6(t) ==
    /\ At(t, "setInterfaceIPv6.setIPv6")
    /\ \/ /\ links' = [d \in LinkIdx |->
                         IF d \in LinkByName(NlhNs, I(t).dstName)
                           THEN [links[d] EXCEPT !.v6 = TRUE] ELSE links[d]]
          /\ th' = [th EXCEPT ![t] =
                Step(t, "setInterfaceIPv6.AddrAdd", Call("setIPv6", I(t).dstName, TRUE))]
       \/ /\ links' = links
          /\ th' = [th EXCEPT ![t] =
                ConfigFail(Logged(t, Call("setIPv6", I(t).dstName, FALSE)),
                           "failed to enable ipv6")]
    /\ UNCHANGED <<isDefault, nextIfIndex, iFaces, mu, created, removes, rtable, issued,
                   returned, rc, stat>>

\* setInterfaceIPv6, lines 355-356.
setInterfaceIPv6AddrAdd(t) ==
    /\ At(t, "setInterfaceIPv6.AddrAdd")
    /\ AddrAdd(t, FAMILY_V6, I(t).addressIPv6, ConfigOk(th[t]))
    /\ UNCHANGED <<isDefault, nextIfIndex, iFaces, mu, created, removes, rtable, issued,
                   returned, rc, stat>>

\* setInterfaceMaster, lines 317-325: the master is looked up by name.
setInterfaceMaster(t) ==
    /\ At(t, "setInterfaceMaster")
    /\ IF I(t).dstMaster = ""
         THEN /\ th' = [th EXCEPT ![t] = ConfigOk(th[t])]
              /\ links' = links
         ELSE \E ok \in BOOLEAN :
                /\ ok => /\ Reachable(NlhNs, th[t].iface)
                         /\ LinkByName(NlhNs, I(t).dstMaster) # {}
                /\ IF ok
                     THEN /\ links' = [links EXCEPT ![th[t].iface].master = I(t).dstMaster]
                          /\ th' = [th EXCEPT ![t] =
                                ConfigOk(Logged(t, Call("LinkSetMaster", I(t).dstMaster, TRUE)))]
                     ELSE /\ links' = links
                          /\ th' = [th EXCEPT ![t] =
                                ConfigFail(Logged(t, Call("LinkSetMaster", I(t).dstMaster, FALSE)),
                                           KernelErr)]
    /\ UNCHANGED <<isDefault, nextIfIndex, iFaces, mu, created, removes, rtable, issued,
                   returned, rc, stat>>

\* setInterfaceLinkLocalIPs, lines 359-367: one iteration of the loop (k
\* addresses were added so far), or the return when there is nothing to add.
setInterfaceLinkLocalIPs(t) ==
    /\ At(t, "setInterfaceLinkLocalIPs")
    /\ IF Len(I(t).llAddrs) = 0
         THEN /\ th' = [th EXCEPT ![t] = ConfigOk(th[t])]
              /\ links' = links
         ELSE AddrAdd(t, "ll", I(t).llAddrs[th[t].k + 1],
                      IF th[t].k + 1 = Len(I(t).llAddrs)
                        THEN ConfigOk(th[t])
                        ELSE [th[t] EXCEPT !.k = @ + 1])
    /\ UNCHANGED <<isDefault, nextIfIndex, iFaces, mu, created, removes, rtable, issued,
                   returned, rc, stat>>

\* ------------------------------------------- AddInterface: rollback (261-267)
\* Variant of RollbackName: a failed rename ends the rollback, and its error
\* is what the call returns.
RollbackNameAborts(t) ==
    /\ At(t, "rollbackName")
    /\ \E ok \in BOOLEAN :
         /\ ok => /\ Reachable(NlhNs, th[t].iface)
                  /\ NameFree(NlhNs, I(t).srcName, th[t].iface)
         /\ links' = IF ok THEN [links EXCEPT ![th[t].iface].name = I(t).srcName]
                     ELSE links
         /\ th' = [th EXCEPT ![t] =
               IF ok THEN Step(t, "rollbackNs", Call("LinkSetName", I(t).srcName, TRUE))
               ELSE StepReturn(t, Err("renaming interface failed", KernelErr),
                               Call("LinkSetName", I(t).srcName, FALSE))]
    /\ UNCHANGED <<isDefault, nextIfIndex, iFaces, mu, created, removes, rtable, issued,
                   returned, rc, stat>>

\* Line 261: rename the device back; a failure is only logged.
RollbackName(t) ==
    /\ At(t, "rollbackName")
    /\ \E ok \in BOOLEAN :
         /\ ok => /\ Reachable(NlhNs, th[t].iface)
                  /\ NameFree(NlhNs, I(t).srcName, th[t].iface)
         /\ links' = IF ok THEN [links EXCEPT ![th[t].iface].name = I(t).srcName]
                     ELSE links
         /\ th' = [th EXCEPT ![t] =
               Step(t, "rollbackNs", Call("LinkSetName", I(t).srcName, ok))]
    /\ UNCHANGED <<isDefault, nextIfIndex, iFaces, mu, created, removes, rtable, issued,
                   returned, rc, stat>>

\* Lines 264-267: move the device to the caller's namespace; a failure is only
\* logged; the configuration error is returned.
RollbackNs(t) ==
    /\ At(t, "rollbackNs")
    /\ \E ok \in BOOLEAN :
         /\ ok => CanMove(NlhNs, th[t].iface, HostNs)
         /\ links' = IF ok /\ ~isDefault
                       THEN [links EXCEPT ![th[t].iface] = Moved(@, HostNs)]
                       ELSE links
         /\ th' = [th EXCEPT ![t] =
               StepReturn(t, th[t].err, Call("LinkSetNsFd", HostNs, ok))]
    /\ UNCHANGED <<isDefault, nextIfIndex, iFaces, mu, created, removes, rtable, issued,
                   returned, rc, stat>>

\* ------------------------------------------ AddInterface: link up (270-279)
\* The number of retries of line 272.
LinkUpRetries == 3

\* Variant of RetryLinkUp: one retry too many.
RetryLinkUpOnceMore(cnt) == cnt <= LinkUpRetries

\* The loop condition of line 272, once the last attempt has failed.
RetryLinkUp(cnt) == cnt < LinkUpRetries

\* nlh.LinkSetUp(iface) by thread t, with the positions after success and failure.
KernelLinkSetUp(t, rOk, rFail) ==
    \E ok \in BOOLEAN :
      /\ ok => Reachable(NlhNs, th[t].iface)
      /\ links' = IF ok THEN [links EXCEPT ![th[t].iface].up = TRUE] ELSE links
      /\ th' = [th EXCEPT ![t] =
            [(IF ok THEN rOk ELSE rFail)
               EXCEPT !.calls = Append(th[t].calls, Call("LinkSetUp", "", ok))]]

\* Line 272, the init statement of the loop: the first attempt.
LinkSetUp(t) ==
    /\ At(t, "LinkSetUp")
    /\ KernelLinkSetUp(t, [th[t] EXCEPT !.pc = "setInterfaceRoutes", !.k = 0],
                          [th[t] EXCEPT !.pc = "retryLinkSetUp"])
    /\ UNCHANGED <<isDefault, nextIfIndex, iFaces, mu, created, removes, rtable, issued,
                   returned, rc, stat>>

\* Lines 272-276: one more iteration (the last attempt failed): sleep, try
\* again, count.
RetryLinkSetUp(t) ==
    /\ At(t, "retryLinkSetUp")
    /\ RetryLinkUp(th[t].cnt)
    /\ KernelLinkSetUp(t, [th[t] EXCEPT !.pc = "setInterfaceRoutes", !.k = 0,
                                        !.cnt = @ + 1],
                          [th[t] EXCEPT !.cnt = @ + 1])
    /\ UNCHANGED <<isDefault, nextIfIndex, iFaces, mu, created, removes, rtable, issued,
                   returned, rc, stat>>

\* Variant of LinkUpFailure: the placement is rolled back as after a
\* configuration error.
LinkUpFailureRollback(r) ==
    [r EXCEPT !.pc = "rollbackName",
              !.err = Err("failed to set link up", KernelErr)]

\* Lines 277-279: the link-up error is returned as it is, with nothing undone.
LinkUpFailure(r) ==
    [r EXCEPT !.pc = "done", !.ret = Err("failed to set link up", KernelErr),
              !.cnt = 0]

\* Variant of LinkSetUpFailed: the call gives its suffix back when it fails.
LinkSetUpFailedFreesSuffix(t) ==
    /\ At(t, "retryLinkSetUp")
    /\ ~RetryLinkUp(th[t].cnt)
    /\ th' = [th EXCEPT ![t] = LinkUpFailure(th[t])]
    /\ nextIfIndex' = IF isDefault THEN nextIfIndex
                      ELSE [nextIfIndex EXCEPT ![th[t].dstPrefix] = @ - 1]
    /\ UNCHANGED <<isDefault, iFaces, mu, created, removes, links, rtable,
                   issued, returned, rc, stat>>

\* Lines 272 and 277-279: no retry is left and the last attempt failed.
LinkSetUpFailed(t) ==
    /\ At(t, "retryLinkSetUp")
    /\ ~RetryLinkUp(th[t].cnt)
    /\ th' = [th EXCEPT ![t] = LinkUpFailure(th[t])]
    /\ UNCHANGED <<isDefault, nextIfIndex, iFaces, mu, created, removes, links, rtable,
                   issued, returned, rc, stat>>

\* ------------------------------------------- AddInterface: routes, register
\* setInterfaceRoutes, lines 373-385, and AddInterface lines 282-284: one
\* iteration of the loop (k routes were added), or the return without routes.
\* The kernel adds a link-scope route only through a device that is up.
setInterfaceRoutes(t) ==
    /\ At(t, "setInterfaceRoutes")
    /\ IF Len(I(t).routes) = 0
         THEN /\ th' = [th EXCEPT ![t].pc = "registerLock"]
              /\ rtable' = rtable
         ELSE \E ok \in BOOLEAN :
                /\ ok => Reachable(NlhNs, th[t].iface) /\ links[th[t].iface].up
                /\ IF ok
                     THEN /\ rtable' = [rtable EXCEPT ![FAMILY_V4] =
                                           @ \cup {I(t).routes[th[t].k + 1]}]
                          /\ th' = [th EXCEPT ![t] =
                                [Logged(t, Call("RouteAdd", "", TRUE)) EXCEPT
                                   !.k = @ + 1,
                                   !.pc = IF th[t].k + 1 = Len(I(t).routes)
                                            THEN "registerLock"
                                            ELSE "setInterfaceRoutes"]]
                     ELSE /\ rtable' = rtable
                          /\ th' = [th EXCEPT ![t] =
                                StepReturn(t, Err("error setting interface routes", KernelErr),
                                           Call("RouteAdd", "", FALSE))]
    /\ UNCHANGED <<isDefault, nextIfIndex, iFaces, mu, created, removes, links, issued,
                   returned, rc, stat>>

\* Line 286: n.Lock().
RegisterLock(t) ==
    /\ At(t, "registerLock")
    /\ mu = 0
    /\ mu' = t
    /\ th' = [th EXCEPT ![t].pc = "register"]
    /\ UNCHANGED <<isDefault, nextIfIndex, iFaces, created, removes, links, rtable, issued,
                   returned, rc, stat>>

\* Lines 287-288: append the entity, unlock. From now on the callers of the
\* registry can get hold of the entity.
Register(t) ==
    /\ At(t, "register")
    /\ iFaces' = Append(iFaces, th[t].i)
    /\ returned' = returned \cup {th[t].i}
    /\ mu' = 0
    /\ th' = [th EXCEPT ![t].pc = "checkLoV6"]
    /\ UNCHANGED <<isDefault, nextIfIndex, created, removes, links, rtable,
                   issued, rc, stat>>

\* Lines 290-292 and 140-142: the IPv6 loopback reconciliation, then return nil.
checkLoV6(t) ==
    /\ At(t, "checkLoV6")
    /\ th' = [th EXCEPT ![t] = StepReturn(t, NoErr, Call("checkLoV6", "", TRUE))]
    /\ UNCHANGED <<isDefault, nextIfIndex, iFaces, mu, created, removes, links,
                   rtable, issued, returned, rc, stat>>

\* ------------------------------------------------------------------- Remove
\* Line 96: Remove is called on an entity the registry handed out; n.Lock().
Remove(t, i) ==
    /\ th[t].pc \in {"idle", "done"}
    /\ i \in returned
    /\ FirstCaller(t)
    /\ removes < MaxRemoves
    /\ removes' = removes + 1
    /\ mu = 0
    /\ mu' = t
    /\ th' = [th EXCEPT ![t] = [Idle EXCEPT !.op = "Remove", !.i = i,
                                            !.pc = "rm.snapshot"]]
    /\ UNCHANGED <<isDefault, nextIfIndex, iFaces, created, links, rtable,
                   issued, returned, rc, stat>>

\* Variant of RemoveSnapshot: the lock is kept over the kernel calls.
RemoveSnapshotLocked(t) ==
    /\ At(t, "rm.snapshot")
    /\ th' = [th EXCEPT ![t].pc = "rm.LinkByName"]
    /\ UNCHANGED <<isDefault, nextIfIndex, iFaces, mu, created, removes, links, rtable,
                   issued, returned, rc, stat>>

\* Lines 97-99: snapshot isDefault and the handle, unlock.
RemoveSnapshot(t) ==
    /\ At(t, "rm.snapshot")
    /\ mu' = 0
    /\ th' = [th EXCEPT ![t].pc = "rm.LinkByName"]
    /\ UNCHANGED <<isDefault, nextIfIndex, iFaces, created, removes, links, rtable, issued,
                   returned, rc, stat>>

\* Lines 102-105: find the device by the destination name.
RemoveLinkByName(t) ==
    /\ At(t, "rm.LinkByName")
    /\ \/ \E d \in LinkByName(NlhNs, I(t).dstName) :
            th' = [th EXCEPT ![t] =
               [Step(t, "rm.LinkSetDown", Call("LinkByName", I(t).dstName, TRUE))
                  EXCEPT !.iface = d]]
       \/ th' = [th EXCEPT ![t] =
               StepReturn(t, Err("", KernelErr), Call("LinkByName", I(t).dstName, FALSE))]
    /\ UNCHANGED <<isDefault, nextIfIndex, iFaces, mu, created, removes, links, rtable,
                   issued, returned, rc, stat>>

\* Lines 108-110: set the device down.
RemoveLinkSetDown(t) ==
    /\ At(t, "rm.LinkSetDown")
    /\ \E ok \in BOOLEAN :
         /\ ok => Reachable(NlhNs, th[t].iface)
         /\ links' = IF ok THEN [links EXCEPT ![th[t].iface].up = FALSE] ELSE links
         /\ th' = [th EXCEPT ![t] =
               IF ok THEN Step(t, "rm.LinkSetName", Call("LinkSetDown", "", TRUE))
               ELSE StepReturn(t, Err("", KernelErr), Call("LinkSetDown", "", FALSE))]
    /\ UNCHANGED <<isDefault, nextIfIndex, iFaces, mu, created, removes, rtable, issued,
                   returned, rc, stat>>

\* Variant of AfterRename: a bridge is handed back like any other device.
AfterRenameNoDelete(bridge, isDef) ==
    IF ~isDef THEN "rm.LinkSetNsFd" ELSE "rm.Lock"

\* Lines 119 and 123: what follows the rename.
AfterRename(bridge, isDef) ==
    IF bridge THEN "rm.LinkDel"
    ELSE IF ~isDef THEN "rm.LinkSetNsFd"
    ELSE "rm.Lock"

\* Lines 112-116: rename the device back to the source name.
RemoveLinkSetName(t) ==
    /\ At(t, "rm.LinkSetName")
    /\ \E ok \in BOOLEAN :
         /\ ok => /\ Reachable(NlhNs, th[t].iface)
                  /\ NameFree(NlhNs, I(t).srcName, th[t].iface)
         /\ links' = IF ok THEN [links EXCEPT ![th[t].iface].name = I(t).srcName]
                     ELSE links
         /\ th' = [th EXCEPT ![t] =
               IF ok THEN Step(t, AfterRename(I(t).bridge, isDefault),
                               Call("LinkSetName", I(t).srcName, TRUE))
               ELSE StepReturn(t, Err("", KernelErr),
                               Call("LinkSetName", I(t).srcName, FALSE))]
    /\ UNCHANGED <<isDefault, nextIfIndex, iFaces, mu, created, removes, rtable, issued,
                   returned, rc, stat>>

\* Lines 119-122: a bridge is deleted.
RemoveLinkDel(t) ==
    /\ At(t, "rm.LinkDel")
    /\ \E ok \in BOOLEAN :
         /\ ok => Reachable(NlhNs, th[t].iface)
         /\ links' = IF ok THEN [links EXCEPT ![th[t].iface].ns = "gone"] ELSE links
         /\ th' = [th EXCEPT ![t] =
               IF ok THEN Step(t, "rm.Lock", Call("LinkDel", "", TRUE))
               ELSE StepReturn(t, Err("failed deleting bridge", KernelErr),
                               Call("LinkDel", "", FALSE))]
    /\ UNCHANGED <<isDefault, nextIfIndex, iFaces, mu, created, removes, rtable, issued,
                   returned, rc, stat>>

\* Variant of RemoveLinkSetNsFd: a failed move is only logged and the removal
\* goes on.
RemoveLinkSetNsFdLogged(t) ==
    /\ At(t, "rm.LinkSetNsFd")
    /\ \E ok \in BOOLEAN :
         /\ ok => CanMove(NlhNs, th[t].iface, HostNs)
         /\ links' = IF ok THEN [links EXCEPT ![th[t].iface] = Moved(@, HostNs)]
                     ELSE links
         /\ th' = [th EXCEPT ![t] =
               Step(t, "rm.Lock", Call("LinkSetNsFd", HostNs, ok))]
    /\ UNCHANGED <<isDefault, nextIfIndex, iFaces, mu, created, removes, rtable, issued,
                   returned, rc, stat>>

\* Lines 123-128: otherwise, outside the default namespace, the device is moved
\* to the caller's namespace.
RemoveLinkSetNsFd(t) ==
    /\ At(t, "rm.LinkSetNsFd")
    /\ \E ok \in BOOLEAN :
         /\ ok => CanMove(NlhNs, th[t].iface, HostNs)
         /\ links' = IF ok THEN [links EXCEPT ![th[t].iface] = Moved(@, HostNs)]
                     ELSE links
         /\ th' = [th EXCEPT ![t] =
               IF ok THEN Step(t, "rm.Lock", Call("LinkSetNsFd", HostNs, TRUE))
               ELSE StepReturn(t, Err("", KernelErr), Call("LinkSetNsFd", HostNs, FALSE))]
    /\ UNCHANGED <<isDefault, nextIfIndex, iFaces, mu, created, removes, rtable, issued,
                   returned, rc, stat>>

\* Line 131: n.Lock().
RemoveLock(t) ==
    /\ At(t, "rm.Lock")
    /\ mu = 0
    /\ mu' = t
    /\ th' = [th EXCEPT ![t].pc = "rm.detach"]
    /\ UNCHANGED <<isDefault, nextIfIndex, iFaces, created, removes, links, rtable, issued,
                   returned, rc, stat>>

\* Variant of Detach: the entity is looked for by its destination name.
DetachByName(seq, i) ==
    LET hits == {x \in 1..Len(seq) : seq[x].dstName = i.dstName}
        index == CHOOSE x \in hits : \A y \in hits : x <= y
    IN  IF hits = {} THEN seq
        ELSE SubSeq(seq, 1, index - 1) \o SubSeq(seq, index + 1, Len(seq))

\* Lines 132-137: the collection without its first element identical to i.
Detach(seq, i) ==
    LET hits == {x \in 1..Len(seq) : seq[x].id = i.id}
        index == CHOOSE x \in hits : \A y \in hits : x <= y
    IN  IF hits = {} THEN seq
        ELSE SubSeq(seq, 1, index - 1) \o SubSeq(seq, index + 1, Len(seq))

\* Lines 132-138: detach the entity, unlock.
RemoveDetach(t) ==
    /\ At(t, "rm.detach")
    /\ iFaces' = Detach(iFaces, th[t].i)
    /\ mu' = 0
    /\ th' = [th EXCEPT ![t].pc = "checkLoV6"]
    /\ UNCHANGED <<isDefault, nextIfIndex, created, removes, links, rtable,
                   issued, returned, rc, stat>>

\* ------------------------------------------------------------ specification
Next ==
    \/ \E t \in Threads : \E r \in Requests : AddInterface(t, r[1], r[2], r[3])
    \/ \E t \in Threads : FindDstLock(t)
    \/ \E t \in Threads : FindDstScan(t)
    \/ \E t \in Threads : AddLock(t)
    \/ \E t \in Threads : Allocate(t)
    \/ \E t \in Threads : LinkAdd(t)
    \/ \E t \in Threads : HostLinkByName(t)
    \/ \E t \in Threads : GetFromPath(t)
    \/ \E t \in Threads : LinkSetNsFd(t)
    \/ \E t \in Threads : LinkByNameSrc(t)
    \/ \E t \in Threads : LinkSetDown(t)
    \/ \E t \in Threads : setInterfaceName(t)
    \/ \E t \in Threads : setInterfaceMAC(t)
    \/ \E t \in Threads : setInterfaceIP(t)
    \/ \E t \in Threads : setInterfaceIPAddrAdd(t)
    \/ \E t \in Threads : setInterfaceIPv6(t)
    \/ \E t \in Threads : setIPv6(t)
    \/ \E t \in Threads : setInterfaceIPv6AddrAdd(t)
    \/ \E t \in Threads : setInterfaceMaster(t)
    \/ \E t \in Threads : setInterfaceLinkLocalIPs(t)
    \/ \E t \in Threads : RollbackName(t)
    \/ \E t \in Threads : RollbackNs(t)
    \/ \E t \in Threads : LinkSetUp(t)
    \/ \E t \in Threads : RetryLinkSetUp(t)
    \/ \E t \in Threads : LinkSetUpFailed(t)
    \/ \E t \in Threads : setInterfaceRoutes(t)
    \/ \E t \in Threads : RegisterLock(t)
    \/ \E t \in Threads : Register(t)
    \/ \E t \in Threads : checkLoV6(t)
    \/ \E t \in Threads : \E i \in returned : Remove(t, i)
    \/ \E t \in Threads : RemoveSnapshot(t)
    \/ \E t \in Threads : RemoveLinkByName(t)
    \/ \E t \in Threads : RemoveLinkSetDown(t)
    \/ \E t \in Threads : RemoveLinkSetName(t)
    \/ \E t \in Threads : RemoveLinkDel(t)
    \/ \E t \in Threads : RemoveLinkSetNsFd(t)
    \/ \E t \in Threads : RemoveLock(t)
    \/ \E t \in Threads : RemoveDetach(t)

Spec == Init /\ [][Next]_vars

\* ------------------------------------- specification of checkRouteConflict
\* The destinations the kernel can hold in a route: networks without host bits.
RouteNets == {n \in Nets : n[1] % TwoPow[AddrBits - n[2]] = 0}

\* The sets of up to n routes, each with a destination network or without
\* one (Dst == nil).
RECURSIVE RoutesUpTo(_)
RoutesUpTo(n) ==
    IF n = 0 THEN {{}}
    ELSE LET less == RoutesUpTo(n - 1) IN
         less \cup {rs \cup {r} : rs \in less, r \in RouteNets \cup {NilNet}}

\* The routes RouteList can return.
RouteLists == RoutesUpTo(MaxRoutes)

\* One call checkRouteConflict(nlh, address, family) about to be made: the
\* address, the routes of the family, and whether RouteList succeeds.
InitRC ==
    /\ isDefault = FALSE
    /\ nextIfIndex = [p \in Prefixes |-> 0]
    /\ iFaces = <<>>
    /\ mu = 0
    /\ created = 0
    /\ removes = 0
    /\ links = << NewLink(HostNs, "veth") >>
    /\ rtable = [f \in Families |-> {}]
    /\ th = [t \in Threads |-> Idle]
    /\ issued = <<>>
    /\ returned = {}
    /\ stat = [pc |-> "off"]
    /\ \E address \in Nets, routes \in RouteLists, listOk \in BOOLEAN :
          rc = [pc |-> "call", address |-> address, routes |-> routes,
                listOk |-> listOk, err |-> ""]

\* checkRouteConflict, lines 387-401, on the inputs drawn.
CheckRouteConflictCall ==
    /\ rc.pc = "call"
    /\ rc' = [rc EXCEPT !.pc = "returned",
                        !.err = checkRouteConflict(rc.listOk, rc.routes, rc.address)]
    /\ UNCHANGED <<isDefault, nextIfIndex, iFaces, mu, created, removes, links,
                   rtable, th, issued, returned, stat>>

NextRC == CheckRouteConflictCall

SpecRC == InitRC /\ [][NextRC]_vars

\* ------------------------------------- specification of the master lookup
\* The entities a registry can hold when a master is looked up: a bridge, a
\* device that is no bridge with the same source name, and another bridge.
\* Each is <<srcName, bridge>>.
RegisteredKinds == { <<"br", TRUE>>, <<"br", FALSE>>, <<"docker0", TRUE>> }

\* The sequences of up to n kinds.
RECURSIVE KindsUpTo(_)
KindsUpTo(n) ==
    IF n = 0 THEN {<< >>}
    ELSE LET less == KindsUpTo(n - 1) IN
         less \cup {Append(ks, k) : ks \in less, k \in RegisteredKinds}

\* The entity AddInterface registered as the x-th one, of kind k, all with the
\* prefix "eth" (lines 183-204); its identity is none of those of the calls
\* to come.
EntityOf(x, k) ==
    [NoIface EXCEPT !.id = MaxAdds + x, !.srcName = k[1], !.bridge = k[2],
                    !.dstName = IF isDefault THEN k[1] ELSE Sprintf("eth", x - 1)]

\* A registry that holds up to MaxRegistered entities, each with its device
\* up in the registry's namespace under the destination name; on the default
\* namespace, where the destination name is the source name, the entities
\* have different source names. The callers have made no call yet.
InitMaster ==
    /\ isDefault \in BOOLEAN
    /\ \E ks \in KindsUpTo(MaxRegistered) :
          /\ isDefault => \A x, y \in 1..Len(ks) : x # y => ks[x][1] # ks[y][1]
          /\ iFaces = [x \in 1..Len(ks) |-> EntityOf(x, ks[x])]
    /\ nextIfIndex = [p \in Prefixes |->
                        IF p = "eth" /\ ~isDefault THEN Len(iFaces) ELSE 0]
    /\ mu = 0
    /\ created = 0
    /\ removes = 0
    /\ links = << NewLink(HostNs, "veth") >>
                \o [x \in 1..Len(iFaces) |->
                      [NewLink(NlhNs, iFaces[x].dstName) EXCEPT !.up = TRUE]]
    /\ rtable = [f \in Families |-> {}]
    /\ th = [t \in Threads |-> Idle]
    /\ issued = IF isDefault THEN << >>
                ELSE [x \in 1..Len(iFaces) |->
                        [prefix |-> "eth", suffix |-> x - 1,
                         name |-> iFaces[x].dstName]]
    /\ returned = {iFaces[x] : x \in 1..Len(iFaces)}
    /\ rc = [pc |-> "off"]
    /\ stat = [pc |-> "off"]

\* AddInterface calls with a master, up to the end of the lookup (lines
\* 182-196), among Remove calls on the registered entities.
NextMaster ==
    \/ \E t \in Threads : \E r \in Requests :
          r[3].master # "" /\ AddInterface(t, r[1], r[2], r[3])
    \/ \E t \in Threads : FindDstLock(t)
    \/ \E t \in Threads : FindDstScan(t)
    \/ \E t \in Threads : \E i \in returned : Remove(t, i)
    \/ \E t \in Threads : RemoveSnapshot(t)
    \/ \E t \in Threads : RemoveLinkByName(t)
    \/ \E t \in Threads : RemoveLinkSetDown(t)
    \/ \E t \in Threads : RemoveLinkSetName(t)
    \/ \E t \in Threads : RemoveLinkDel(t)
    \/ \E t \in Threads : RemoveLinkSetNsFd(t)
    \/ \E t \in Threads : RemoveLock(t)
    \/ \E t \in Threads : RemoveDetach(t)
    \/ \E t \in Threads : checkLoV6(t)

SpecMaster == InitMaster /\ [][NextMaster]_vars

\* ----------------------------------------------- specification of Statistics
\* Variant of InterfaceStatistics: the byte counters are taken from the
\* wrong direction.
InterfaceStatisticsSwapped(stats) ==
    [RxBytes |-> stats.TxBytes, TxBytes |-> stats.RxBytes,
     RxPackets |-> stats.RxPackets, TxPackets |-> stats.TxPackets,
     RxDropped |-> stats.RxDropped, TxDropped |-> stats.TxDropped]

\* Lines 157-164: the counters Statistics copies out of the device's statistics.
InterfaceStatistics(stats) ==
    [RxBytes |-> stats.RxBytes, TxBytes |-> stats.TxBytes,
     RxPackets |-> stats.RxPackets, TxPackets |-> stats.TxPackets,
     RxDropped |-> stats.RxDropped, TxDropped |-> stats.TxDropped]

\* Lines 152-164: the result for the link the lookup returned.
StatisticsOf(l) ==
    IF l.stats = NilStats
      THEN [result |-> NilStats, err |-> Err("no statistics were returned", "")]
      ELSE [result |-> InterfaceStatistics(l.stats), err |-> NoErr]

\* The entity Statistics is called on: an entity of the registry, named as
\* AddInterface names the first one it is given (lines 199-204).
StatEntity ==
    [NoIface EXCEPT !.id = 1, !.srcName = "veth",
                    !.dstName = IF isDefault THEN "veth" ELSE Sprintf("eth", 0)]

\* One Statistics call about to be made on the entity, registered or not,
\* whose device is in one of the places AddInterface and Remove leave it: in
\* the caller's namespace under the source name, in the registry's namespace
\* under the source or the destination name, or deleted. A second device,
\* the bridge, is in the registry's namespace with counters of its own.
InitStats ==
    /\ isDefault \in BOOLEAN
    /\ nextIfIndex = [p \in Prefixes |-> IF p = "eth" /\ ~isDefault THEN 1 ELSE 0]
    /\ iFaces \in {<<>>, <<StatEntity>>}
    /\ mu = 0
    /\ created = 1
    /\ removes = 0
    /\ \E ns \in {HostNs, NlhNs, "gone"}, name \in {"veth", StatEntity.dstName},
          stats \in LinkStatistics \cup {NilStats} :
          links = << [NewLink(ns, name) EXCEPT !.stats = stats],
                     [NewLink(NlhNs, "br") EXCEPT !.stats.RxErrors = MaxCount] >>
    /\ rtable = [f \in Families |-> {}]
    /\ th = [t \in Threads |-> Idle]
    /\ issued = <<>>
    /\ returned = {StatEntity}
    /\ rc = [pc |-> "off"]
    /\ stat = [pc |-> "call", i |-> StatEntity, found |-> FALSE,
               reported |-> NilStats, result |-> NilStats, err |-> NoErr]

\* Statistics, lines 146-165: the lookup by destination name through the
\* registry's handle, then the copy of the counters of the link it returned.
Statistics ==
    /\ stat.pc = "call"
    /\ \/ \E d \in LinkByName(NlhNs, stat.i.dstName) :
            stat' = [stat EXCEPT !.pc = "returned", !.found = TRUE,
                                 !.reported = links[d].stats,
                                 !.result = StatisticsOf(links[d]).result,
                                 !.err = StatisticsOf(links[d]).err]
       \/ stat' = [stat EXCEPT !.pc = "returned",
                       !.err = Err("failed to retrieve the statistics", KernelErr)]
    /\ UNCHANGED <<isDefault, nextIfIndex, iFaces, mu, created, removes, links,
                   rtable, th, issued, returned, rc>>

NextStats == Statistics

SpecStats == InitStats /\ [][NextStats]_vars

\* ================================================================== claims
\* The AddInterface call of thread t has been given its destination name.
Allocated(t) ==
    /\ th[t].op = "AddInterface"
    /\ th[t].pc \notin {"findDst", "findDstLocked", "Lock", "allocate"}
    /\ ~(th[t].pc = "done" /\ th[t].ret.msg = "could not find an appropriate master")

\* The entity of thread t's call is in the registry's collection.
Registered(t) == \E x \in 1..Len(iFaces) : iFaces[x].id = th[t].i.id

\* Number of allocations for the prefix of the j-th allocation before it.
PriorCount(j) ==
    Cardinality({x \in 1..(j - 1) : issued[x].prefix = issued[j].prefix})

\* The calls thread t's call has made with operation op.
CallsOf(t, op) == {x \in 1..Len(th[t].calls) : th[t].calls[x].op = op}

\* C1: on a non-default namespace the name given to a call with prefix p is p
\* followed by the decimal count of the allocations made for p before it; the
\* counter of every prefix is the number of allocations made for that prefix.
C1_NameIsPrefixPlusCount ==
    ~isDefault =>
      /\ \A j \in 1..Len(issued) :
            /\ issued[j].suffix = PriorCount(j)
            /\ issued[j].name = issued[j].prefix \o Itoa(PriorCount(j))
      /\ \A p \in Prefixes :
            nextIfIndex[p] = Cardinality({x \in 1..Len(issued) : issued[x].prefix = p})
      /\ \A t \in Threads :
            Allocated(t) =>
              \E j \in 1..Len(issued) :
                 /\ issued[j].prefix = th[t].dstPrefix
                 /\ issued[j].name = th[t].i.dstName

\* Two allocations for the prefix "eth"; the second call is given "eth1".
C1_Witness ==
    /\ ~isDefault
    /\ Len(issued) = 2
    /\ issued[1].prefix = "eth" /\ issued[2].prefix = "eth"
    /\ \E t \in Threads : Allocated(t) /\ th[t].i.dstName = "eth1"

\* C2: on the default namespace every call is given its source name as
\* destination name, whatever the prefix, and the suffix counters stay as
\* they were created.
C2_DefaultKeepsSourceName ==
    isDefault =>
      /\ \A t \in Threads : Allocated(t) => th[t].i.dstName = th[t].i.srcName
      /\ \A x \in 1..Len(iFaces) : iFaces[x].dstName = iFaces[x].srcName
      /\ nextIfIndex = [p \in Prefixes |-> 0]
      /\ issued = <<>>

\* A call on the default namespace with a prefix other than the source name
\* has returned nil.
C2_Witness ==
    /\ isDefault
    /\ \E t \in Threads :
          /\ Allocated(t)
          /\ th[t].pc = "done" /\ th[t].ret = NoErr
          /\ th[t].dstPrefix # th[t].i.srcName
          /\ Registered(t)

\* The suffixes given for one prefix increase strictly in the order of allocation.
SuffixesIncrease ==
    \A j, k \in 1..Len(issued) :
       (j < k /\ issued[j].prefix = issued[k].prefix) =>
          issued[j].suffix < issued[k].suffix

\* No step, of Remove or of any other operation, lowers a counter.
CountersNeverDecrease == \A p \in Prefixes : nextIfIndex'[p] >= nextIfIndex[p]

\* C3: in every interleaving of AddInterface and Remove calls no two calls with
\* the same prefix are given the same suffix: the suffixes of a prefix increase
\* strictly in the order in which the calls hold the lock, and no step lowers
\* or resets a counter.
C3_SuffixesNeverReused ==
    [](SuffixesIncrease /\ \A j \in 1..Len(issued) :
                              issued[j].suffix < nextIfIndex[issued[j].prefix])
      /\ [][CountersNeverDecrease]_vars

\* Two allocations for one prefix with a successful Remove around them.
C3_Witness ==
    /\ Len(issued) = 2
    /\ issued[1].prefix = issued[2].prefix
    /\ \E t \in Threads :
          th[t].op = "Remove" /\ th[t].pc = "done" /\ th[t].ret = NoErr

\* C4: no two registered entities of the registry have the same destination name.
C4_UniqueDstNames ==
    \A x, y \in 1..Len(iFaces) :
       x # y => iFaces[x].dstName # iFaces[y].dstName

\* The address family whose configurator returned the error of thread t's call.
ErrFamily(t) == IF th[t].err.msg = ErrMessage[3] THEN FAMILY_V4 ELSE FAMILY_V6

\* C5: once the route conflict check has reported a conflict for a family, the
\* call has made and makes no AddrAdd for that family (and no setIPv6, for
\* IPv6), it only rolls back and returns the conflict error, and its entity is
\* not in the registry's collection.
C5_ConflictBeforeMutation ==
    \A t \in Threads :
       (th[t].op = "AddInterface" /\ th[t].err.cause = ConflictErr) =>
          /\ th[t].err.msg \in {ErrMessage[3], ErrMessage[4]}
          /\ th[t].pc \in {"rollbackName", "rollbackNs", "done"}
          /\ \A x \in CallsOf(t, "AddrAdd") : th[t].calls[x].arg # ErrFamily(t)
          /\ ErrFamily(t) = FAMILY_V6 => CallsOf(t, "setIPv6") = {}
          /\ th[t].pc = "done" => th[t].ret = th[t].err
          /\ ~Registered(t)

\* An AddInterface call has returned the conflict error of the IPv4 address.
C5_Witness ==
    \E t \in Threads :
       /\ th[t].op = "AddInterface" /\ th[t].pc = "done"
       /\ th[t].ret = Err(ErrMessage[3], ConflictErr)
       /\ th[t].i.address # NilNet

\* One of the two networks contains the other.
Nested(a, b) == NetAddrs(a) \subseteq NetAddrs(b) \/ NetAddrs(b) \subseteq NetAddrs(a)

\* The candidate network contains, or is contained by, the destination
\* network of some listed route.
NestedWithSomeRoute ==
    \E route \in rc.routes \ {NilNet} : Nested(rc.address, route)

\* C6, as stated: checkRouteConflict fails if and only if the candidate network
\* contains, or is contained by, the destination network of some listed route.
C6_FailsIffNested ==
    rc.pc = "returned" => (rc.err # "" <=> NestedWithSomeRoute)

\* C6, amended: checkRouteConflict fails if and only if listing the routes
\* fails or the candidate network contains, or is contained by, the
\* destination network of some listed route; the error is the conflict error
\* exactly when the listing succeeded and such a route exists.
C6_FailsIffListErrorOrNested ==
    rc.pc = "returned" =>
       /\ rc.err # "" <=> (~rc.listOk \/ NestedWithSomeRoute)
       /\ rc.err = ConflictErr <=> (rc.listOk /\ NestedWithSomeRoute)

\* The check has passed a candidate against a route to another network, and
\* failed another one that contains the route's network.
C6_Witness ==
    /\ rc.pc = "returned"
    /\ rc.listOk
    /\ \E route \in rc.routes \ {NilNet} :
          \/ rc.err = "" /\ ~Nested(rc.address, route) /\ Cardinality(rc.routes) = 1
          \/ /\ rc.err = ConflictErr
             /\ NetAddrs(route) \subseteq NetAddrs(rc.address)
             /\ NetAddrs(route) # NetAddrs(rc.address)

\* C7: an AddInterface call makes at most 4 LinkSetUp calls and none after one
\* that succeeded; after a successful one it goes on to the route installation
\* and does not return the link-up error.
C7_LinkUpAtMostFourTimes ==
    \A t \in Threads :
       th[t].op = "AddInterface" =>
          /\ Cardinality(CallsOf(t, "LinkSetUp")) <= 4
          /\ \A x \in CallsOf(t, "LinkSetUp") :
                th[t].calls[x].ok =>
                   /\ \A y \in CallsOf(t, "LinkSetUp") : y <= x
                   /\ th[t].pc \in {"setInterfaceRoutes", "registerLock",
                                    "register", "checkLoV6", "done"}
                   /\ th[t].ret.msg # "failed to set link up"
          /\ (th[t].pc = "done" /\ th[t].ret.msg = "failed to set link up") =>
                Cardinality(CallsOf(t, "LinkSetUp")) = 4

\* Two failures, then a success: exactly 3 LinkSetUp calls and a successful Add.
C7_Witness ==
    \E t \in Threads :
       /\ th[t].op = "AddInterface" /\ th[t].pc = "done" /\ th[t].ret = NoErr
       /\ Cardinality(CallsOf(t, "LinkSetUp")) = 3
       /\ Cardinality({x \in CallsOf(t, "LinkSetUp") : ~th[t].calls[x].ok}) = 2
       /\ Registered(t)

\* No other caller has made a call: the history so far is sequential.
Sequential(t) == \A o \in Threads \ {t} : th[o].pc = "idle"

\* All 4 LinkSetUp calls of thread t's AddInterface call have failed.
FourLinkUpFailures(t) ==
    /\ th[t].op = "AddInterface"
    /\ Cardinality({x \in CallsOf(t, "LinkSetUp") : ~th[t].calls[x].ok}) = 4

\* The device of thread t's call is in the registry's namespace under the
\* destination name, with the addresses asked for, and down.
ConfiguredButDown(t) ==
    LET l == links[th[t].iface] IN
      /\ l.ns = NlhNs
      /\ l.name = th[t].i.dstName
      /\ ~l.up
      /\ th[t].i.address # NilNet => <<FAMILY_V4, th[t].i.address>> \in l.addrs
      /\ th[t].i.addressIPv6 # NilNet => <<FAMILY_V6, th[t].i.addressIPv6>> \in l.addrs

\* C8: after 4 failed LinkSetUp calls AddInterface makes no further kernel
\* call (no route, no rename back, no move back) and returns the link-up
\* error; its entity is not in the registry; when no other caller is at work
\* the device is in the registry's namespace under its destination name,
\* configured and down.
C8_LinkUpFailureLeavesDevice ==
    \A t \in Threads :
       FourLinkUpFailures(t) =>
          /\ th[t].pc \in {"retryLinkSetUp", "done"}
          /\ th[t].pc = "done" => th[t].ret = Err("failed to set link up", KernelErr)
          /\ ~Registered(t)
          /\ th[t].calls[Len(th[t].calls)].op = "LinkSetUp"
          /\ CallsOf(t, "RouteAdd") = {}
          /\ CallsOf(t, "LinkSetNsFd") = {}
          /\ Cardinality(CallsOf(t, "LinkSetName")) = 1
          /\ Sequential(t) => ConfiguredButDown(t)

\* An AddInterface call with addresses has returned after 4 failed attempts.
C8_Witness ==
    \E t \in Threads :
       /\ FourLinkUpFailures(t) /\ th[t].pc = "done"
       /\ Sequential(t) /\ ~isDefault
       /\ th[t].i.address # NilNet

\* C9: once a configurator has failed, the entity of the call is not in the
\* registry; the call renames the device back to its source name, then moves
\* it to the caller's namespace (whatever the outcome of either), and returns
\* the configurator's error.
C9_ConfigFailureRollsBack ==
    \A t \in Threads :
       (th[t].op = "AddInterface" /\ th[t].err # NoErr) =>
          LET n == Len(th[t].calls) IN
          /\ th[t].pc \in {"rollbackName", "rollbackNs", "done"}
          /\ ~Registered(t)
          /\ th[t].pc = "rollbackNs" =>
                /\ th[t].calls[n].op = "LinkSetName"
                /\ th[t].calls[n].arg = th[t].i.srcName
          /\ th[t].pc = "done" =>
                /\ th[t].calls[n - 1].op = "LinkSetName"
                /\ th[t].calls[n - 1].arg = th[t].i.srcName
                /\ th[t].calls[n].op = "LinkSetNsFd"
                /\ th[t].calls[n].arg = HostNs
                /\ th[t].ret = th[t].err

\* A call on a non-default namespace has returned the error of the IPv6 step.
C9_Witness ==
    \E t \in Threads :
       /\ th[t].op = "AddInterface" /\ th[t].pc = "done"
       /\ ~isDefault
       /\ th[t].ret = Err(ErrMessage[4], KernelErr)

\* The kernel calls of a Remove that returns nil, for the entity i.
RemoveCalls(i) ==
    << Call("LinkByName", i.dstName, TRUE), Call("LinkSetDown", "", TRUE),
       Call("LinkSetName", i.srcName, TRUE) >>
    \o (IF i.bridge THEN << Call("LinkDel", "", TRUE) >>
        ELSE IF ~isDefault THEN << Call("LinkSetNsFd", HostNs, TRUE) >>
        ELSE << >>)
    \o << Call("checkLoV6", "", TRUE) >>

\* Where Remove leaves the device of thread t's call.
RemovedDevice(t) ==
    LET l == links[th[t].iface] IN
      IF th[t].i.bridge THEN l.ns = "gone"
      ELSE l.ns = HostNs /\ l.name = th[t].i.srcName /\ ~l.up

\* C10: a Remove that has returned nil has, in this order, found the device,
\* set it down, renamed it to the source name and then deleted it (a bridge),
\* moved it to the caller's namespace (no bridge, non-default namespace) or
\* neither (no bridge, default namespace); its entity is not in the registry;
\* when no other caller is at work the device is where these calls put it.
C10_RemoveSuccess ==
    \A t \in Threads :
       (th[t].op = "Remove" /\ th[t].pc = "done" /\ th[t].ret = NoErr) =>
          /\ th[t].calls = RemoveCalls(th[t].i)
          /\ ~Registered(t)
          /\ Sequential(t) => RemovedDevice(t)

\* A Remove of a bridge and a Remove of another device of a non-default
\* namespace have returned nil.
C10_Witness ==
    /\ ~isDefault
    /\ \E t \in Threads :
          /\ th[t].op = "Remove" /\ th[t].pc = "done" /\ th[t].ret = NoErr
          /\ ~th[t].i.bridge
          /\ links[th[t].iface].ns = HostNs

\* No AddInterface or Remove call is in progress.
Quiescent == \A t \in Threads : th[t].pc \in {"idle", "done"}

\* C11: whenever no AddInterface or Remove call is in progress, every
\* registered entity has a device in the registry's namespace under the
\* entity's destination name.
C11_RegistryMatchesKernel ==
    Quiescent =>
       \A x \in 1..Len(iFaces) : LinkByName(NlhNs, iFaces[x].dstName) # {}

\* The positions between n.Lock() and n.Unlock(): the scan of findDst, the
\* name allocation, the append, the snapshot of Remove and the detach. The
\* steps from the first, second, third and last of them are the ones that read
\* or write the collection or the counters.
LockedPcs == {"findDstLocked", "allocate", "register", "rm.snapshot", "rm.detach"}

\* A call of the kernel (or of an external collaborator) is logged by this step.
CallsKernel(t) ==
    /\ th'[t].op = th[t].op
    /\ Len(th'[t].calls) > Len(th[t].calls)

\* One step keeps the discipline: the collection and the counters change only
\* in a step of the lock's holder, the holder's next step releases the lock,
\* and nobody calls the kernel while holding the lock.
LockStep ==
    /\ (iFaces' # iFaces \/ nextIfIndex' # nextIfIndex) =>
          /\ mu # 0
          /\ th'[mu] # th[mu]
          /\ \A o \in Threads \ {mu} : th'[o] = th[o]
    /\ \A t \in Threads :
          /\ (mu = t /\ th'[t] # th[t]) => mu' = 0
          /\ CallsKernel(t) => mu # t /\ mu' # t

\* C12: a caller is at a position that reads or writes the collection or the
\* counters exactly while it holds the lock; the lock is free when no call is
\* in progress; the holder can always take the step that releases it, so a
\* waiting caller is never blocked for good; and every step keeps the
\* discipline of LockStep.
C12_LockDiscipline ==
    [](/\ \A t \in Threads : th[t].pc \in LockedPcs <=> mu = t
       /\ Quiescent => mu = 0
       /\ mu # 0 => ENABLED (\/ FindDstScan(mu) \/ Allocate(mu) \/ Register(mu)
                             \/ RemoveSnapshot(mu) \/ RemoveDetach(mu)))
      /\ [][LockStep]_vars

\* One caller holds the lock to append its entity while the other, having
\* made its kernel calls, waits for the lock to detach one.
C12_Witness ==
    \E t, o \in Threads :
       /\ mu = t /\ th[t].pc = "register"
       /\ th[o].pc = "rm.Lock" /\ Len(th[o].calls) >= 3

\* The counters of the result of Statistics.
StatFields ==
    {"RxBytes", "TxBytes", "RxPackets", "TxPackets", "RxDropped", "TxDropped"}

\* The lookup error of Statistics.
StatLookupFailed ==
    /\ stat.err.msg = "failed to retrieve the statistics"
    /\ stat.result = NilStats

\* Statistics changes neither the registry nor the kernel's devices and routes.
StatisticsReadsOnly ==
    /\ iFaces' = iFaces /\ nextIfIndex' = nextIfIndex /\ mu' = mu
    /\ links' = links /\ rtable' = rtable

\* C13: a Statistics call that has returned has failed with the lookup error
\* if no device has the entity's destination name in the namespace (and
\* whenever the handle's lookup failed); has failed with the no-statistics
\* error if the link the handle returned has no statistics object; and has
\* otherwise returned no error and the six counters with exactly the values of
\* the link the handle returned, which is the device of that name. No step of
\* Statistics changes the registry or a device.
C13_StatisticsReports ==
    [](stat.pc = "returned" =>
         /\ LinkByName(NlhNs, stat.i.dstName) = {} => StatLookupFailed
         /\ ~stat.found => StatLookupFailed
         /\ stat.found =>
               \E d \in LinkByName(NlhNs, stat.i.dstName) :
                  links[d].stats = stat.reported
         /\ (stat.found /\ stat.reported = NilStats) =>
               /\ stat.err = Err("no statistics were returned", "")
               /\ stat.result = NilStats
         /\ (stat.found /\ stat.reported # NilStats) =>
               /\ stat.err = NoErr
               /\ DOMAIN stat.result = StatFields
               /\ \A f \in StatFields : stat.result[f] = stat.reported[f])
      /\ [][StatisticsReadsOnly]_vars

\* Statistics has returned the counters of a registered entity's device that
\* has received but not sent.
C13_Witness ==
    /\ stat.pc = "returned"
    /\ stat.err = NoErr
    /\ iFaces # <<>>
    /\ stat.result.RxBytes = 1 /\ stat.result.TxBytes = 0
    /\ stat.reported.RxErrors = 1

\* The kernel calls of a configuration pipeline that runs to its end for the
\* entity i, in the order rename, MAC, IPv4, IPv6, master, link-local
\* addresses, each with the number of its step.
PipelineCall(op, arg, step) == [op |-> op, arg |-> arg, step |-> step]
FullPipeline(i) ==
    << PipelineCall("LinkSetName", i.dstName, 1) >>
    \o (IF i.mac = "" THEN << >>
        ELSE << PipelineCall("LinkSetHardwareAddr", i.mac, 2) >>)
    \o (IF i.address = NilNet THEN << >>
        ELSE << PipelineCall("RouteList", FAMILY_V4, 3),
                PipelineCall("AddrAdd", FAMILY_V4, 3) >>)
    \o (IF i.addressIPv6 = NilNet THEN << >>
        ELSE << PipelineCall("RouteList", FAMILY_V6, 4),
                PipelineCall("setIPv6", i.dstName, 4),
                PipelineCall("AddrAdd", FAMILY_V6, 4) >>)
    \o (IF i.dstMaster = "" THEN << >>
        ELSE << PipelineCall("LinkSetMaster", i.dstMaster, 5) >>)
    \o [k \in 1..Len(i.llAddrs) |-> PipelineCall("AddrAdd", "ll", 6)]

\* The operations a configurator calls.
PipelineOps ==
    {"LinkSetName", "LinkSetHardwareAddr", "RouteList", "AddrAdd", "setIPv6",
     "LinkSetMaster"}

\* The AddInterface call of thread t has set its device down, which is where
\* configureInterface is entered.
InPipeline(t) ==
    /\ th[t].op = "AddInterface"
    /\ \E x \in CallsOf(t, "LinkSetDown") : th[t].calls[x].ok

\* The calls thread t's call has made inside configureInterface: those after
\* LinkSetDown, without the rollback calls that follow a failure.
PipelineLog(t) ==
    LET n == Len(th[t].calls)
        down == CHOOSE x \in CallsOf(t, "LinkSetDown") : TRUE
        last == IF th[t].err # NoErr
                  THEN CASE th[t].pc = "rollbackName" -> n
                         [] th[t].pc = "rollbackNs" -> n - 1
                         [] OTHER -> n - 2
                  ELSE down + Cardinality({x \in (down + 1)..n :
                                              th[t].calls[x].op \in PipelineOps})
    IN  SubSeq(th[t].calls, down + 1, last)

\* The number of link-local addresses thread t's call has added.
LinkLocalAdded(t) ==
    Cardinality({x \in 1..Len(PipelineLog(t)) :
                    /\ PipelineLog(t)[x].op = "AddrAdd"
                    /\ PipelineLog(t)[x].arg = "ll"
                    /\ PipelineLog(t)[x].ok})

\* Thread t's call has made the call op(arg) inside the pipeline, with success.
Applied(t, op, arg) ==
    \E x \in 1..Len(PipelineLog(t)) : PipelineLog(t)[x] = Call(op, arg, TRUE)

\* The device of thread t's call has everything the pipeline has applied so
\* far, and no link-local address beyond those added.
NothingUndone(t) ==
    LET l == links[th[t].iface]
        i == th[t].i
    IN  /\ Applied(t, "LinkSetName", i.dstName) => l.name = i.dstName
        /\ Applied(t, "LinkSetHardwareAddr", i.mac) => l.mac = i.mac
        /\ Applied(t, "AddrAdd", FAMILY_V4) => <<FAMILY_V4, i.address>> \in l.addrs
        /\ Applied(t, "setIPv6", i.dstName) => l.v6
        /\ Applied(t, "AddrAdd", FAMILY_V6) => <<FAMILY_V6, i.addressIPv6>> \in l.addrs
        /\ Applied(t, "LinkSetMaster", i.dstMaster) => l.master = i.dstMaster
        /\ {a \in l.addrs : a[1] = "ll"} =
              {<<"ll", i.llAddrs[k]>> : k \in 1..LinkLocalAdded(t)}

\* C14: the calls made inside configureInterface are, in this order, an
\* initial part of the calls of rename, MAC, IPv4, IPv6, master and
\* link-local addresses; every one but the last has succeeded; once the
\* pipeline has failed the last one is the call that failed (or the route
\* listing that showed the conflict), no call of a later step or for a later
\* link-local address was made, and the error is that call's error wrapped
\* with the message of its step; when no other caller is at work the device
\* has, until the rollback starts, everything the earlier steps applied.
C14_PipelineOrder ==
    \A t \in Threads :
       InPipeline(t) =>
          LET log == PipelineLog(t)
              full == FullPipeline(th[t].i)
              n == Len(log)
          IN  /\ n <= Len(full)
              /\ \A x \in 1..n :
                    /\ log[x].op = full[x].op /\ log[x].arg = full[x].arg
                    /\ x < n => log[x].ok
              /\ th[t].err # NoErr =>
                    /\ n > 0
                    /\ th[t].err.msg = ErrMessage[full[n].step]
                    /\ \/ ~log[n].ok /\ th[t].err.cause # ConflictErr
                       \/ /\ log[n].ok /\ log[n].op = "RouteList"
                          /\ th[t].err.cause = ConflictErr
                    /\ th[t].pc = "done" => th[t].ret = th[t].err
              /\ (th[t].err = NoErr /\ n > 0) => log[n].ok
              /\ (Sequential(t) /\ th[t].cfg > 0 /\ th[t].pc # "rollbackNs") =>
                    NothingUndone(t)

\* A call has returned the error of the link-local step: the first address
\* was added, the second was refused.
C14_Witness ==
    \E t \in Threads :
       /\ InPipeline(t) /\ th[t].pc = "done"
       /\ th[t].ret = Err(ErrMessage[6], KernelErr)
       /\ Len(PipelineLog(t)) = Len(FullPipeline(th[t].i))
       /\ Len(th[t].i.llAddrs) = 2
       /\ LinkLocalAdded(t) = 1

\* The configuration pipeline of thread t's AddInterface call has failed.
PipelineFailed(t) == th[t].op = "AddInterface" /\ th[t].err # NoErr

\* The last two calls of thread t's call are the rename back to the source
\* name and then the move to the caller's namespace, whatever their outcome.
RolledBack(t) ==
    LET n == Len(th[t].calls) IN
      /\ n >= 3
      /\ th[t].calls[n - 1].op = "LinkSetName"
      /\ th[t].calls[n - 1].arg = th[t].i.srcName
      /\ th[t].calls[n].op = "LinkSetNsFd"
      /\ th[t].calls[n].arg = HostNs

\* While a call goes on, the configuration error it has met stays as it is.
ErrorKept ==
    \A t \in Threads :
       (PipelineFailed(t) /\ th'[t].i.id = th[t].i.id) => th'[t].err = th[t].err

\* C15: once the pipeline has failed, the rename back can be attempted; after
\* the rename, failed or not, the move to the caller's namespace can be
\* attempted; the call returns only after both, and returns the configuration
\* error, which no rollback step replaces.
C15_BothRollbackSteps ==
    [](\A t \in Threads :
          PipelineFailed(t) =>
             /\ th[t].pc \in {"rollbackName", "rollbackNs", "done"}
             /\ th[t].pc = "rollbackName" => ENABLED RollbackName(t)
             /\ th[t].pc = "rollbackNs" =>
                   /\ th[t].calls[Len(th[t].calls)].op = "LinkSetName"
                   /\ ENABLED RollbackNs(t)
             /\ th[t].pc = "done" =>
                   /\ RolledBack(t)
                   /\ th[t].ret = th[t].err
                   /\ th[t].ret.msg \in {ErrMessage[k] : k \in 1..Len(ErrMessage)})
      /\ [][ErrorKept]_vars

\* A call has returned its configuration error after a rename back that
\* failed and a move back that succeeded.
C15_Witness ==
    \E t \in Threads :
       /\ PipelineFailed(t) /\ th[t].pc = "done"
       /\ ~th[t].calls[Len(th[t].calls) - 1].ok
       /\ th[t].calls[Len(th[t].calls)].ok
       /\ links[th[t].iface].ns = HostNs
       /\ ~isDefault

\* The stage of AddInterface a logged call belongs to: 1 placement, 2 the
\* lookup by source name inside the namespace, 3 link down, 4 configuration
\* pipeline (and its rollback), 5 link up, 6 routes, 7 after the append.
Stage(c) ==
    CASE c.op \in {"LinkAdd", "host.LinkByName", "GetFromPath", "host.LinkSetNsFd"} -> 1
      [] c.op = "LinkByName" -> 2
      [] c.op = "LinkSetDown" -> 3
      [] c.op \in PipelineOps \cup {"LinkSetNsFd"} -> 4
      [] c.op = "LinkSetUp" -> 5
      [] c.op = "RouteAdd" -> 6
      [] OTHER -> 7

\* The operations that place the device of entity i in the namespace.
Placement(i) ==
    IF i.bridge THEN << "LinkAdd" >>
    ELSE IF isDefault THEN << "host.LinkByName" >>
    ELSE << "host.LinkByName", "GetFromPath", "host.LinkSetNsFd" >>

\* The operations of an AddInterface call for entity i in which everything
\* succeeded, up to the append.
SuccessfulAdd(i) ==
    Placement(i) \o << "LinkByName", "LinkSetDown" >>
    \o [x \in 1..Len(FullPipeline(i)) |-> FullPipeline(i)[x].op]
    \o << "LinkSetUp" >>
    \o [x \in 1..Len(i.routes) |-> "RouteAdd"]

Succeeded(c) == c.ok

\* The operations of the calls of thread t that succeeded, in their order.
SucceededOps(t) ==
    LET sel == SelectSeq(th[t].calls, Succeeded)
    IN  [x \in 1..Len(sel) |-> sel[x].op]

\* The entity of thread t's AddInterface call has been appended.
Appended(t) == th[t].op = "AddInterface" /\ th[t].i \in returned

\* C16: the calls of an AddInterface call are made stage by stage: placement,
\* lookup by source name, link down, pipeline, link up, routes; a route is
\* added only after a LinkSetUp that succeeded and a configurator calls the
\* kernel only after a LinkSetDown that succeeded; the entity has been
\* appended only if the calls that succeeded are exactly those of placement,
\* lookup, link down, the whole pipeline, one link up and every route, and the
\* only calls that failed are earlier link-up attempts; a call that is not
\* past the append, or has returned an error, has not changed the collection.
C16_StepOrder ==
    \A t \in Threads :
       th[t].op = "AddInterface" =>
          LET calls == th[t].calls
              n == Len(calls)
          IN  /\ \A x, y \in 1..n : x < y => Stage(calls[x]) <= Stage(calls[y])
              /\ \A y \in CallsOf(t, "RouteAdd") :
                    \E x \in CallsOf(t, "LinkSetUp") : x < y /\ calls[x].ok
              /\ \A y \in 1..n :
                    Stage(calls[y]) = 4 =>
                       \E x \in CallsOf(t, "LinkSetDown") : x < y /\ calls[x].ok
              /\ \A x \in 1..n :
                    (~calls[x].ok /\ Stage(calls[x]) \in {1, 2, 3, 6}) => x = n
              /\ Appended(t) =>
                    /\ th[t].pc \in {"checkLoV6", "done"}
                    /\ \A x \in 1..n : ~calls[x].ok => calls[x].op = "LinkSetUp"
                    /\ SucceededOps(t) =
                          SuccessfulAdd(th[t].i)
                          \o (IF th[t].pc = "done" THEN << "checkLoV6" >> ELSE << >>)
                    /\ th[t].pc = "done" => th[t].ret = NoErr
              /\ (th[t].pc \notin {"checkLoV6", "done"} \/ th[t].ret # NoErr) =>
                    /\ ~Appended(t)
                    /\ ~Registered(t)

\* An entity with a master, addresses and two routes has been appended after
\* a first link-up attempt that failed.
C16_Witness ==
    \E t \in Threads :
       /\ Appended(t) /\ Registered(t) /\ th[t].pc = "done"
       /\ Len(th[t].i.routes) = 2
       /\ th[t].i.dstMaster # ""
       /\ \E x \in CallsOf(t, "LinkSetUp") : ~th[t].calls[x].ok

\* The positions in the collection of the bridges with source name master.
Masters(master) ==
    {x \in 1..Len(iFaces) : iFaces[x].srcName = master /\ iFaces[x].bridge}

\* The master lookup of thread t's call is still to be made, or has failed.
BeforeLookup(t) ==
    /\ th[t].op = "AddInterface" /\ th[t].i.master # ""
    /\ \/ th[t].pc \in {"findDst", "findDstLocked"}
       \/ th[t].pc = "done" /\ th[t].ret.msg = "could not find an appropriate master"

\* The step that ends the lookup of thread t: with no bridge of that source
\* name in the collection at this moment the call returns the master error;
\* else it goes on with the destination name of the first one.
LookupStep(t) ==
    (th[t].pc = "findDstLocked" /\ th'[t].pc # "findDstLocked") =>
       LET hits == Masters(th[t].i.master)
           first == CHOOSE x \in hits : \A y \in hits : x <= y
       IN  IF hits = {}
             THEN /\ th'[t].pc = "done"
                  /\ th'[t].ret = Err("could not find an appropriate master", "")
             ELSE /\ th'[t].pc = "Lock"
                  /\ th'[t].i.dstMaster = iFaces[first].dstName

\* A step of a call whose lookup is still to be made changes neither the
\* counters, nor the collection, nor the kernel state.
LookupFrame(t) ==
    (BeforeLookup(t) /\ th'[t] # th[t] /\ th'[t].i.id = th[t].i.id) =>
       /\ nextIfIndex' = nextIfIndex /\ issued' = issued
       /\ iFaces' = iFaces
       /\ links' = links /\ rtable' = rtable

\* C17: a call with a master that has not made its lookup, or whose lookup
\* has failed, has made no kernel call and has no destination name allocated,
\* and its steps leave counters, collection and kernel state as they are; the
\* lookup gives the destination name of the first bridge with the master's
\* source name in the collection at that moment, and the master error when
\* the collection then holds none.
C17_MasterLookup ==
    [](\A t \in Threads :
          BeforeLookup(t) =>
             /\ th[t].calls = << >>
             /\ th[t].i.dstName = th[t].dstPrefix
             /\ th[t].i.dstMaster = ""
             /\ ~Registered(t))
      /\ [][\A t \in Threads : LookupStep(t) /\ LookupFrame(t)]_vars

\* The lookup has passed over a registered device that has the master's
\* source name but is no bridge, and has given the name of the bridge
\* registered after it.
C17_Witness ==
    \E t \in Threads :
       /\ th[t].pc = "Lock" /\ th[t].i.master = "br"
       /\ Len(iFaces) = 2
       /\ iFaces[1].srcName = "br" /\ ~iFaces[1].bridge
       /\ th[t].i.dstMaster = iFaces[2].dstName
       /\ th[t].i.dstMaster # iFaces[1].dstName

\* A kernel call of the Remove call of thread t has failed.
RemoveFailed(t) ==
    th[t].op = "Remove" /\ \E x \in 1..Len(th[t].calls) : ~th[t].calls[x].ok

\* The error Remove returns when its call c has failed (lines 104, 109, 115,
\* 121 and 127).
RemoveError(c) ==
    IF c.op = "LinkDel" THEN Err("failed deleting bridge", KernelErr)
    ELSE Err("", KernelErr)

\* A step of a Remove call that is not the detach leaves the collection as it is.
RemoveKeepsCollection ==
    \A t \in Threads :
       (th[t].op = "Remove" /\ th'[t] # th[t] /\ th[t].pc # "rm.detach") =>
          iFaces' = iFaces

\* C18: a Remove call returns an error only when one of its kernel calls has
\* failed; once one has failed, the call has returned, with that call's
\* error; its calls are an initial part of lookup, set down, rename, delete
\* or move, the failed one being the last; the IPv6-loopback reconciliation
\* was not triggered; the call has not changed the collection, so that the
\* entity is still registered when this is the only Remove call made so far.
C18_RemoveFailure ==
    [](\A t \in Threads :
          /\ (th[t].op = "Remove" /\ th[t].ret # NoErr) => RemoveFailed(t)
          /\ RemoveFailed(t) =>
             LET calls == th[t].calls
                 n == Len(calls)
                 full == RemoveCalls(th[t].i)
             IN  /\ th[t].pc = "done"
                 /\ n < Len(full)
                 /\ \A x \in 1..n :
                       /\ calls[x].op = full[x].op /\ calls[x].arg = full[x].arg
                       /\ calls[x].ok <=> x < n
                 /\ th[t].ret = RemoveError(calls[n])
                 /\ CallsOf(t, "checkLoV6") = {}
                 /\ removes = 1 => Registered(t))
      /\ [][RemoveKeepsCollection]_vars

\* A Remove call has returned the error of the move to the caller's
\* namespace, after the rename; the entity is still registered.
C18_Witness ==
    \E t \in Threads :
       /\ RemoveFailed(t)
       /\ th[t].calls[Len(th[t].calls)].op = "LinkSetNsFd"
       /\ links[th[t].iface].name = th[t].i.srcName
       /\ links[th[t].iface].ns = NlhNs
       /\ Registered(t)

\* The entities of a collection other than the one with identity id, in
\* their order.
Others(seq, id) == SelectSeq(seq, LAMBDA e : e.id # id)

\* The detach step of thread t's Remove call takes the entity the call was
\* made on out of the collection, if it is there, and nothing else; the other
\* entities keep their order; the counters stay as they are.
DetachStep(t) ==
    (th[t].pc = "rm.detach" /\ th'[t].pc # "rm.detach") =>
       LET id == th[t].i.id
           there == \E x \in 1..Len(iFaces) : iFaces[x].id = id
       IN  /\ Others(iFaces', id) = Others(iFaces, id)
           /\ Len(iFaces') = Len(iFaces) - (IF there THEN 1 ELSE 0)
           /\ \A x \in 1..Len(iFaces') : iFaces'[x].id # id
           /\ nextIfIndex' = nextIfIndex
           /\ issued' = issued

AllocationsFor(p) == {j \in 1..Len(issued) : issued[j].prefix = p}

\* The entities ever registered under a name allocated for prefix p.
EverRegistered(p) ==
    {e \in returned : \E j \in AllocationsFor(p) : issued[j].name = e.dstName}

\* The AddInterface call of thread t has returned an error after it was given
\* its destination name.
FailedAfterAllocation(t) ==
    Allocated(t) /\ th[t].pc = "done" /\ th[t].ret # NoErr

\* C20: on a non-default namespace the suffix of a call that failed after its
\* allocation stays consumed: the counter of its prefix is above it, and no
\* step lowers a counter; the counter of a prefix is the number of calls with
\* that prefix that reached the allocation and is at least the number of
\* entities ever registered under that prefix.
C20_SuffixConsumedOnFailure ==
    [](~isDefault =>
         /\ \A t \in Threads :
               FailedAfterAllocation(t) =>
                  /\ ~Registered(t) /\ th[t].i \notin returned
                  /\ \E j \in AllocationsFor(th[t].dstPrefix) :
                        /\ issued[j].name = th[t].i.dstName
                        /\ issued[j].suffix < nextIfIndex[th[t].dstPrefix]
         /\ \A p \in Prefixes :
               /\ nextIfIndex[p] = Cardinality(AllocationsFor(p))
               /\ nextIfIndex[p] >= Cardinality(EverRegistered(p)))
      /\ [][CountersNeverDecrease]_vars

\* A gap: the call given eth0 has failed, the entity eth1 is registered, and
\* eth0 was never registered.
C20_Witness ==
    /\ ~isDefault
    /\ nextIfIndex["eth"] = 2
    /\ Cardinality(EverRegistered("eth")) = 1
    /\ \E x \in 1..Len(iFaces) : iFaces[x].dstName = "eth1"
    /\ \E t \in Threads : FailedAfterAllocation(t) /\ th[t].i.dstName = "eth0"

====
